---- MODULE Spec2Model ----
(***************************************************************************)
(* Mobility Network Community Detection service.                           *)
(*                                                                         *)
(* app/main.py      : graph_state, lifespan (startup / shutdown), the      *)
(*                    handlers home, analyze_network, visualize_network.   *)
(* app/processing.py: load_graph_data, detect_communities,                 *)
(*                    generate_graph_image.                                *)
(*                                                                         *)
(* processing.py calls pandas.read_csv, networkx.from_pandas_edgelist and  *)
(* community_louvain.best_partition / modularity.  What those calls do to  *)
(* the program's data is modelled at the call sites: the graph is a simple *)
(* undirected networkx Graph (node insertion order, one attribute dict per *)
(* edge), best_partition is python-louvain's generate_dendrogram loop with *)
(* its shuffled visiting orders as nondeterministic choices.               *)
(*                                                                         *)
(* best_partition(G) is called with its defaults (python-louvain 0.14 and  *)
(* later: random_state=None, the node order of every pass and the order of *)
(* the neighbour communities are shuffled with numpy's global generator).  *)
(* The gains of __one_level are compared as the doubles the library        *)
(* computes: a gain of 0 can round to 2^-54 and move a node.  Modularity   *)
(* values are the rationals [num, den] whose roundings the library holds:  *)
(* with at most NRows links two of them differ by 0 or by more than twice  *)
(* __MIN, so new_mod - cur_mod < __MIN is decided by the rationals.        *)
(***************************************************************************)
EXTENDS Integers, Sequences, FiniteSets, TLC

VARIABLES
    csv,          \* the file at settings.DATA_PATH
    phase,        \* lifespan position: "init", "running", "stopped"
    graph_state,  \* main.py graph_state: a dict with at most the key "G"
    pc,           \* position of the request being handled
    run,          \* locals of the best_partition call in progress
    response,     \* answer to the last request since startup / shutdown
    calls,        \* library calls made for that request
    analyses      \* the last two partitions computed on the held graph

vars == <<csv, phase, graph_state, pc, run, response, calls, analyses>>

-----------------------------------------------------------------------------
(* Bounds and inputs *)

MaxRecords == 2

Stations == {1, 2, 3}

RequiredColumns == {"departure_id", "return_id"}

NRows == 1000

MinInverse == 10000000

RECURSIVE SeqsUpTo(_, _)
SeqsUpTo(S, n) ==
    IF n = 0 THEN {<<>>}
    ELSE LET shorter == SeqsUpTo(S, n - 1)
         IN  shorter \cup {Append(s, x) : s \in {t \in shorter : Len(t) = n - 1}, x \in S}

Row(u, v) == [c \in RequiredColumns |-> IF c = "departure_id" THEN u ELSE v]

\* tests/test_main.py mock_graph: the triangle 1-2, 2-3, 3-1
TriangleRows == <<Row(1, 2), Row(2, 3), Row(3, 1)>>

\* two triangles {1,2,3} and {4,5,6} joined by the bridge 3-4
BarbellRows ==
    <<Row(1, 2), Row(2, 3), Row(3, 1), Row(4, 5), Row(5, 6), Row(6, 4), Row(3, 4)>>

\* the triangle 1-2-3 sharing the edge 1-2 with the square 1-2-5-4
HouseRows ==
    <<Row(1, 2), Row(1, 3), Row(1, 4), Row(2, 3), Row(2, 5), Row(4, 5)>>

\* the trip 1-2 three times, in both directions, and a round trip at 3
RepeatedRows ==
    <<Row(1, 2), Row(2, 1), Row(1, 2), Row(2, 3), Row(3, 3)>>

\* the star 1-2, 1-3, 1-4 with round trips at 3 and at 5: when 1 is visited
\* after 2 has joined it, staying with 2 and moving to 4 both gain 0
\* without rounding and 2^-54 in the doubles of __one_level
RoundingRows ==
    <<Row(1, 2), Row(1, 3), Row(1, 4), Row(3, 3), Row(5, 5)>>

ScenarioRows == {TriangleRows, BarbellRows, HouseRows, RepeatedRows, RoundingRows}

\* every file the service may find at DATA_PATH
CsvFiles ==
    {[exists |-> FALSE, columns |-> {}, rows |-> <<>>]}
    \cup {[exists |-> TRUE, columns |-> RequiredColumns, rows |-> r] : r \in ScenarioRows}
    \cup UNION {{[exists |-> TRUE, columns |-> cols, rows |-> r] :
                    r \in SeqsUpTo([cols -> Stations], MaxRecords)} :
                 cols \in SUBSET RequiredColumns}

-----------------------------------------------------------------------------
(* networkx Graph *)

NoAttrs == [k \in {} |-> 0]

EmptyGraph == [nodes |-> <<>>, adj |-> [e \in {} |-> NoAttrs]]

Range(s) == {s[i] : i \in DOMAIN s}

NodeSet(G) == Range(G.nodes)

Edges(G) == DOMAIN G.adj

AddNode(G, n) ==
    IF n \in NodeSet(G) THEN G ELSE [G EXCEPT !.nodes = Append(G.nodes, n)]

\* Graph.add_edge(u, v, **attrs): an existing edge keeps one entry, its
\* attribute dict is updated with attrs
AddEdge(G, u, v, attrs) ==
    LET H == AddNode(AddNode(G, u), v)
        e == {u, v}
        old == IF e \in DOMAIN H.adj THEN H.adj[e] ELSE NoAttrs
        new == [k \in DOMAIN old \cup DOMAIN attrs |->
                    IF k \in DOMAIN attrs THEN attrs[k] ELSE old[k]]
    IN  [H EXCEPT !.adj = [f \in DOMAIN H.adj \cup {e} |->
                              IF f = e THEN new ELSE H.adj[f]]]

\* nx.from_pandas_edgelist(df, source='departure_id', target='return_id'):
\* add_edges_from(zip(df[source], df[target])), no edge attributes
RECURSIVE from_pandas_edgelist(_, _)
from_pandas_edgelist(rows, G) ==
    IF rows = <<>> THEN G
    ELSE from_pandas_edgelist(Tail(rows),
             AddEdge(G, Head(rows)["departure_id"], Head(rows)["return_id"], NoAttrs))

Min(a, b) == IF a < b THEN a ELSE b

\* pd.read_csv(filepath, nrows=1000)
read_csv(file) == SubSeq(file.rows, 1, Min(Len(file.rows), NRows))

load_graph_data(file) ==
    IF ~file.exists THEN [ok |-> FALSE, error |-> "FileNotFoundError"]
    ELSE IF ~(RequiredColumns \subseteq file.columns)
         THEN [ok |-> FALSE, error |-> "ValueError"]
         ELSE [ok |-> TRUE, G |-> from_pandas_edgelist(read_csv(file), EmptyGraph)]

-----------------------------------------------------------------------------
(* Graph queries used by python-louvain *)

RECURSIVE SumOver(_, _)
SumOver(S, f) ==
    IF S = {} THEN 0
    ELSE LET x == CHOOSE y \in S : TRUE
         IN  f[x] + SumOver(S \ {x}, f)

\* datas.get(weight, 1)
EdgeWeight(G, e) ==
    IF "weight" \in DOMAIN G.adj[e] THEN G.adj[e]["weight"] ELSE 1

\* graph.degree(node, weight='weight'): a self-loop counts twice
Degree(G, n) ==
    SumOver({e \in Edges(G) : n \in e},
            [e \in Edges(G) |-> IF e = {n} THEN 2 * EdgeWeight(G, e) ELSE EdgeWeight(G, e)])

\* graph.size(weight='weight')
Size(G) == SumOver(Edges(G), [e \in Edges(G) |-> EdgeWeight(G, e)])

number_of_edges(G) == Cardinality(Edges(G))

\* graph.get_edge_data(node, node, default={weight: 0}).get(weight, 1)
LoopWeight(G, n) == IF {n} \in Edges(G) THEN EdgeWeight(G, {n}) ELSE 0

IndexOf(s, x) == CHOOSE i \in DOMAIN s : s[i] = x

\* the distinct elements of s in order of first appearance
Dedupe(s) ==
    LET firsts == {i \in DOMAIN s : \A j \in 1 .. (i - 1) : s[j] # s[i]}
    IN  [r \in 1 .. Cardinality(firsts) |->
            s[CHOOSE i \in firsts : Cardinality({j \in firsts : j <= i}) = r]]

LinearProbes == 9

PerturbShift == 5

PySetMinSize == 8

\* CPython set of small non-negative ints (hash(i) = i): an open-addressing
\* table, -1 marks a free slot; iteration runs over the slots in order
PySetNew(size) ==
    [mask |-> size - 1, fill |-> 0, slots |-> [i \in 0 .. (size - 1) |-> -1]]

\* set_add_entry / set_insert_clean: LINEAR_PROBES slots after i when they
\* fit in the table, then i = (i * 5 + 1 + perturb) & mask
RECURSIVE PySetFindSlot(_, _, _, _, _)
PySetFindSlot(slots, mask, i, perturb, key) ==
    LET probes == IF i + LinearProbes <= mask THEN LinearProbes ELSE 0
        usable == {j \in i .. (i + probes) : slots[j] = -1 \/ slots[j] = key}
        shifted == perturb \div (2 ^ PerturbShift)
    IN  IF usable # {}
        THEN CHOOSE j \in usable : \A k \in usable : j <= k
        ELSE PySetFindSlot(slots, mask, (i * 5 + 1 + shifted) % (mask + 1), shifted, key)

PySetPut(set, key) ==
    LET j == PySetFindSlot(set.slots, set.mask, key % (set.mask + 1), key, key)
    IN  IF set.slots[j] = key THEN set
        ELSE [set EXCEPT !.slots[j] = key, !.fill = @ + 1]

RECURSIVE PySetGrowSize(_, _)
PySetGrowSize(size, minused) ==
    IF size <= minused THEN PySetGrowSize(2 * size, minused) ELSE size

\* list(set): the keys in slot order
PySetIter(set) ==
    LET used == {i \in 0 .. set.mask : set.slots[i] # -1}
    IN  [r \in 1 .. Cardinality(used) |->
            set.slots[CHOOSE i \in used : Cardinality({j \in used : j <= i}) = r]]

\* the keys seq[i], seq[i + 1], ... put into set, in order; each table is
\* built before the next key is put
RECURSIVE PySetPutAll(_, _, _)
PySetPutAll(set, seq, i) ==
    IF i > Len(seq) THEN set
    ELSE LET next == PySetPut(set, seq[i])
         IN  IF next.fill > 0 THEN PySetPutAll(next, seq, i + 1) ELSE next

\* set_table_resize(so, minused): the keys are reinserted in slot order
PySetResize(set, minused) ==
    PySetPutAll(PySetNew(PySetGrowSize(PySetMinSize, minused)), PySetIter(set), 1)

\* set_add_entry: the table grows once fill * 5 >= mask * 3
PySetAdd(set, key) ==
    LET added == PySetPut(set, key)
    IN  IF added.fill * 5 < added.mask * 3 THEN added
        ELSE PySetResize(added, IF added.fill > 50000 THEN added.fill * 2
                                ELSE added.fill * 4)

\* set(iterable), seq without repetitions: seq[i], seq[i + 1], ... added
RECURSIVE PySetAddAll(_, _, _)
PySetAddAll(set, seq, i) ==
    IF i > Len(seq) THEN set
    ELSE LET next == PySetAdd(set, seq[i])
         IN  IF next.fill > 0 THEN PySetAddAll(next, seq, i + 1) ELSE next

\* set(iterable): adding a key again changes nothing
PySetOf(seq) == PySetAddAll(PySetNew(PySetMinSize), Dedupe(seq), 1)

PySetKeys(set) == Range(PySetIter(set))

\* a.difference(b) for sets of the same size: the keys of a that are not
\* in b, added to a new set in a's iteration order
PySetDifference(a, b) ==
    PySetOf(SelectSeq(PySetIter(a), LAMBDA k : k \notin PySetKeys(b)))

-----------------------------------------------------------------------------
(* Rationals: modularity values *)

Rat(n, d) == [num |-> n, den |-> d]

RatEq(a, b) == a.num * b.den = b.num * a.den

RatLess(a, b) == a.num * b.den < b.num * a.den

\* a - b < __MIN, with __MIN = 1 / MinInverse; a and b over the same denominator
DiffBelowMin(a, b) == (a.num - b.num) <= (a.den - 1) \div MinInverse

-----------------------------------------------------------------------------
(* Python floats: IEEE 754 binary64, round to nearest, ties to even.  A   *)
(* value is a sign and a magnitude counted in units of 2^-FractionBits,   *)
(* held as hi * 2^(MidBits + LoBits) + mid * 2^LoBits + lo.  Every double *)
(* __one_level computes is such a multiple: a file holds at most NRows    *)
(* links, so degc_totw is at least 2^-11 and has no bit below 2^-63.      *)

SignificandBits == 53
FractionBits == 64
LoBits == 23
MidBits == 26
HiBits == FractionBits - MidBits - LoBits
TimesBits == 31 - MidBits

\* carries (or borrows) passed upwards
Mag(hi, mid, lo) ==
    LET m == mid + (lo \div (2 ^ LoBits))
    IN  [hi  |-> hi + (m \div (2 ^ MidBits)),
         mid |-> m % (2 ^ MidBits),
         lo  |-> lo % (2 ^ LoBits)]

MagZero == Mag(0, 0, 0)

MagAdd(x, y) == Mag(x.hi + y.hi, x.mid + y.mid, x.lo + y.lo)

\* x - y, for y not above x
MagSubtract(x, y) == Mag(x.hi - y.hi, x.mid - y.mid, x.lo - y.lo)

MagLess(x, y) ==
    \/ x.hi < y.hi
    \/ x.hi = y.hi /\ x.mid < y.mid
    \/ x.hi = y.hi /\ x.mid = y.mid /\ x.lo < y.lo

\* k * x, the digits of k taken TimesBits at a time
RECURSIVE MagTimes(_, _)
MagTimes(k, x) ==
    IF k < 2 ^ TimesBits THEN Mag(k * x.hi, k * x.mid, k * x.lo)
    ELSE MagAdd(MagTimes(2 ^ TimesBits - 1, MagTimes(k \div (2 ^ TimesBits), x)),
                MagAdd(MagTimes(k \div (2 ^ TimesBits), x), MagTimes(k % (2 ^ TimesBits), x)))

RECURSIVE BitLength(_)
BitLength(n) ==
    IF n >= 16 THEN 4 + BitLength(n \div 16)
    ELSE IF n >= 8 THEN 4 ELSE IF n >= 4 THEN 3 ELSE IF n >= 2 THEN 2 ELSE n

MagBitLength(x) ==
    IF x.hi > 0 THEN MidBits + LoBits + BitLength(x.hi)
    ELSE IF x.mid > 0 THEN LoBits + BitLength(x.mid)
    ELSE BitLength(x.lo)

\* x with its last drop bits, worth rest, rounded away: to nearest, ties
\* (when nothing lies beyond them) to even
MagRoundOff(x, sticky, ulp, rest, odd) ==
    IF 2 * rest > ulp \/ (2 * rest = ulp /\ (sticky \/ odd))
    THEN Mag(x.hi, x.mid, x.lo - rest + ulp)
    ELSE Mag(x.hi, x.mid, x.lo - rest)

MagRoundBits(x, sticky, drop, ulp) ==
    MagRoundOff(x, sticky, ulp, x.lo % ulp,
                IF drop = LoBits THEN x.mid % 2 = 1 ELSE (x.lo \div ulp) % 2 = 1)

MagRoundDrop(x, sticky, drop) ==
    IF drop <= 0 THEN x ELSE MagRoundBits(x, sticky, drop, 2 ^ drop)

\* the nearest magnitude of SignificandBits bits; sticky says that the
\* exact value lies above x by less than one unit
MagRound(x, sticky) == MagRoundDrop(x, sticky, MagBitLength(x) - SignificandBits)

\* the next n binary digits of r / m, for r < m, and the remainder
DivideBits(r, m, n) == [q |-> (r * (2 ^ n)) \div m, r |-> (r * (2 ^ n)) % m]

DblOfInt(k) ==
    [neg |-> k < 0, mag |-> Mag((IF k < 0 THEN - k ELSE k) * (2 ^ HiBits), 0, 0)]

\* float(n) / float(m) for integers n >= 0, m > 0: the quotient to
\* FractionBits digits, a few at a time, then rounded
DblDivide(n, m) ==
    LET hi == DivideBits(n % m, m, HiBits)
        mid1 == DivideBits(hi.r, m, MidBits \div 2)
        mid2 == DivideBits(mid1.r, m, MidBits - (MidBits \div 2))
        lo1 == DivideBits(mid2.r, m, LoBits \div 2)
        lo2 == DivideBits(lo1.r, m, LoBits - (LoBits \div 2))
    IN  [neg |-> FALSE,
         mag |-> MagRound(Mag((n \div m) * (2 ^ HiBits) + hi.q,
                              mid1.q * (2 ^ (MidBits - (MidBits \div 2))) + mid2.q,
                              lo1.q * (2 ^ (LoBits - (LoBits \div 2))) + lo2.q),
                          lo2.r # 0)]

\* float(k) * x for an integer k >= 0
DblTimes(k, x) == [neg |-> x.neg, mag |-> MagRound(MagTimes(k, x.mag), FALSE)]

DblAdd(x, y) ==
    IF x.neg = y.neg THEN [neg |-> x.neg, mag |-> MagRound(MagAdd(x.mag, y.mag), FALSE)]
    ELSE IF MagLess(x.mag, y.mag)
         THEN [neg |-> y.neg, mag |-> MagRound(MagSubtract(y.mag, x.mag), FALSE)]
         ELSE [neg |-> x.neg, mag |-> MagRound(MagSubtract(x.mag, y.mag), FALSE)]

DblSubtract(x, y) == DblAdd(x, [y EXCEPT !.neg = ~ @])

\* x < y; the two zeros are equal
DblLess(x, y) ==
    IF x.neg /\ y.neg THEN MagLess(y.mag, x.mag)
    ELSE IF x.neg THEN x.mag # MagZero \/ y.mag # MagZero
    ELSE IF y.neg THEN FALSE
    ELSE MagLess(x.mag, y.mag)

-----------------------------------------------------------------------------
(* community_louvain: Status, __one_level, __renumber, induced_graph *)

\* Status.init(graph, weight): every node its own community, numbered in
\* the order of graph.nodes()
StatusInit(G) ==
    LET coms == 0 .. (Len(G.nodes) - 1)
    IN  [node2com     |-> [n \in NodeSet(G) |-> IndexOf(G.nodes, n) - 1],
         total_weight |-> Size(G),
         degrees      |-> [c \in coms |-> Degree(G, G.nodes[c + 1])],
         gdegrees     |-> [n \in NodeSet(G) |-> Degree(G, n)],
         internals    |-> [c \in coms |-> LoopWeight(G, G.nodes[c + 1])],
         loops        |-> [n \in NodeSet(G) |-> LoopWeight(G, n)]]

ComsOf(node2com) == {node2com[n] : n \in DOMAIN node2com}

\* __modularity(status, resolution=1): sum over the communities in use of
\* internals/links - (degrees/(2 links))^2, over the denominator 4 links^2
StatusModularity(status) ==
    LET links == status.total_weight
        coms == ComsOf(status.node2com)
    IN  IF links > 0
        THEN Rat(SumOver(coms, [c \in coms |->
                        4 * links * status.internals[c]
                        - status.degrees[c] * status.degrees[c]]),
                 4 * links * links)
        ELSE Rat(0, 1)

\* __neighcom(node, graph, status): weight from node to each community of
\* its neighbours, the node itself excluded
NeighCom(node, G, status) ==
    LET nbEdges == {e \in Edges(G) : node \in e /\ e # {node}}
        other(e) == CHOOSE n \in e : n # node
        coms == {status.node2com[other(e)] : e \in nbEdges}
    IN  [c \in coms |->
            SumOver({e \in nbEdges : status.node2com[other(e)] = c},
                    [e \in nbEdges |-> EdgeWeight(G, e)])]

Get(d, k, default) == IF k \in DOMAIN d THEN d[k] ELSE default

\* __remove(node, com, weight, status)
Remove(node, com, weight, status) ==
    [status EXCEPT
        !.degrees[com] = @ - status.gdegrees[node],
        !.internals[com] = @ - weight - status.loops[node],
        !.node2com[node] = -1]

\* __insert(node, com, weight, status)
Insert(node, com, weight, status) ==
    [status EXCEPT
        !.node2com[node] = com,
        !.degrees[com] = @ + status.gdegrees[node],
        !.internals[com] = @ + weight + status.loops[node]]

\* degc_totw = gdegrees[node] / (total_weight * 2.)
DegcTotw(node, status) == DblDivide(status.gdegrees[node], status.total_weight * 2)

\* remove_cost = - neigh_communities.get(com_node, 0)
\*               + resolution * (degrees[com_node] - gdegrees[node]) * degc_totw
RemoveCost(node, com_node, neigh, status, degc_totw) ==
    DblAdd(DblOfInt(- Get(neigh, com_node, 0)),
           DblTimes(status.degrees[com_node] - status.gdegrees[node], degc_totw))

\* incr = remove_cost + dnc - resolution * degrees[com] * degc_totw, in the
\* doubles of the code, with resolution = 1. and removed the status after
\* __remove
Increase(com, dnc, remove_cost, degc_totw, removed) ==
    DblSubtract(DblAdd(remove_cost, DblOfInt(dnc)),
                DblTimes(removed.degrees[com], degc_totw))

\* the communities the inner loop of __one_level can end with as best_com:
\* the first, in the shuffled order, of those with the greatest incr when
\* that is above best_increase = 0, else the node's own community
BestComs(node, G, status) ==
    LET com_node == status.node2com[node]
        neigh == NeighCom(node, G, status)
        removed == Remove(node, com_node, Get(neigh, com_node, 0), status)
        degc_totw == DegcTotw(node, status)
        remove_cost == RemoveCost(node, com_node, neigh, status, degc_totw)
        incr == [c \in DOMAIN neigh |->
                    Increase(c, neigh[c], remove_cost, degc_totw, removed)]
        top == {c \in DOMAIN neigh : \A d \in DOMAIN neigh : ~DblLess(incr[c], incr[d])}
    IN  IF \E c \in DOMAIN neigh : DblLess(DblOfInt(0), incr[c]) THEN top ELSE {com_node}

\* one iteration of "for node in __randomize(graph.nodes())" ending in best_com
MoveNode(node, best_com, G, status) ==
    LET com_node == status.node2com[node]
        neigh == NeighCom(node, G, status)
        removed == Remove(node, com_node, Get(neigh, com_node, 0), status)
    IN  Insert(node, best_com, Get(neigh, best_com, 0), removed)

\* __renumber(dictionary): values already in 0..n-1 are kept, the others
\* are paired with the unused targets by zip over the two set differences,
\* each in its set's iteration order; nodes is the dict's key order
Renumber(dictionary, nodes) ==
    LET values == PySetOf([i \in DOMAIN nodes |-> dictionary[nodes[i]]])
        target == PySetOf([i \in 1 .. values.fill |-> i - 1])
        from == PySetIter(PySetDifference(values, target))
        to == PySetIter(PySetDifference(target, values))
        renumbering == [v \in PySetKeys(values) |->
                           IF v \in PySetKeys(target) THEN v
                           ELSE to[IndexOf(from, v)]]
    IN  IF PySetKeys(values) = PySetKeys(target) THEN dictionary
        ELSE [k \in DOMAIN dictionary |-> renumbering[dictionary[k]]]

RECURSIVE InducedEdges(_, _, _, _)
InducedEdges(todo, partition, G, ret) ==
    IF todo = {} THEN ret
    ELSE LET e == CHOOSE x \in todo : TRUE
             com1 == partition[CHOOSE n \in e : \A k \in e : n <= k]
             com2 == partition[CHOOSE n \in e : \A k \in e : k <= n]
             w_prec == IF {com1, com2} \in Edges(ret)
                       THEN EdgeWeight(ret, {com1, com2}) ELSE 0
         IN  InducedEdges(todo \ {e}, partition, G,
                 AddEdge(ret, com1, com2,
                         [k \in {"weight"} |-> w_prec + EdgeWeight(G, e)]))

\* induced_graph(partition, graph): one node per community, in the order
\* of partition.values(); edge weights summed
induced_graph(partition, G) ==
    LET comNodes == Dedupe([i \in DOMAIN G.nodes |-> partition[G.nodes[i]]])
    IN  InducedEdges(Edges(G), partition, G, [nodes |-> comNodes, adj |-> EmptyGraph.adj])

TopLevelOnly(dendrogram, level) == dendrogram[level]

\* partition_at_level(dendrogram, len(dendrogram) - 1)
RECURSIVE partition_at_level(_, _)
partition_at_level(dendrogram, level) ==
    IF level = 1 THEN dendrogram[1]
    ELSE LET below == partition_at_level(dendrogram, level - 1)
         IN  [n \in DOMAIN below |-> dendrogram[level][below[n]]]

ModularityCountingBothEnds(partition, G) ==
    LET links == Size(G)
        coms == ComsOf(partition)
        inside(c) == {e \in Edges(G) : \A n \in e : partition[n] = c}
        inc == [c \in coms |->
                   SumOver(inside(c), [e \in Edges(G) |->
                       IF Cardinality(e) = 2 THEN 2 * EdgeWeight(G, e)
                       ELSE EdgeWeight(G, e)])]
        deg == [c \in coms |->
                   SumOver({n \in NodeSet(G) : partition[n] = c},
                           [n \in NodeSet(G) |-> Degree(G, n)])]
    IN  Rat(SumOver(coms, [c \in coms |-> 4 * links * inc[c] - deg[c] * deg[c]]),
            4 * links * links)

\* community_louvain.modularity(partition, graph): an edge inside a
\* community is met from both ends and counts half each time, a self-loop
\* is met once and counts whole
Modularity(partition, G) ==
    LET links == Size(G)
        coms == ComsOf(partition)
        inside(c) == {e \in Edges(G) : \A n \in e : partition[n] = c}
        inc == [c \in coms |-> SumOver(inside(c), [e \in Edges(G) |-> EdgeWeight(G, e)])]
        deg == [c \in coms |->
                   SumOver({n \in NodeSet(G) : partition[n] = c},
                           [n \in NodeSet(G) |-> Degree(G, n)])]
    IN  Rat(SumOver(coms, [c \in coms |-> 4 * links * inc[c] - deg[c] * deg[c]]),
            4 * links * links)

-----
(* graph_state *)

NoneValue == [kind |-> "None"]

GraphValue(G) == [kind |-> "Graph", nodes |-> G.nodes, adj |-> G.adj]

EmptyDict == [k \in {} |-> NoneValue]

DictAfterSetDefault(d, k) ==
    IF k \in DOMAIN d THEN d ELSE [j \in {k} |-> NoneValue]

\* the dict after d.get(k): get returns the value or None and inserts nothing
DictAfterGet(d, k) == d

\* graph_state.get("G") is None
NoGraphHeld == ("G" \notin DOMAIN graph_state) \/ graph_state["G"] = NoneValue

HeldGraph == [nodes |-> graph_state["G"].nodes, adj |-> graph_state["G"].adj]

LoadOrEmpty(file) ==
    LET r == load_graph_data(file)
    IN  IF r.ok THEN GraphValue(r.G) ELSE GraphValue(EmptyGraph)

\* lifespan's try / except around load_graph_data
LoadOrNone(file) ==
    LET r == load_graph_data(file)
    IN  IF r.ok THEN GraphValue(r.G) ELSE NoneValue

IsEmptyGraphNever(G) == FALSE

\* detect_communities: "not G or len(G.nodes) == 0"
IsEmptyGraph(G) == Len(G.nodes) = 0

NoRun == [level |-> 0]

\* no answer yet: the request is being handled, or none was made
NoResponse == [status |-> 0]

Init ==
    /\ csv \in CsvFiles
    /\ phase = "init"
    /\ graph_state = EmptyDict
    /\ pc = "idle"
    /\ run = NoRun
    /\ response = NoResponse
    /\ calls = {}
    /\ analyses = <<>>

\* lifespan, up to the yield
Startup ==
    /\ phase = "init"
    /\ pc = "idle"
    /\ graph_state' = [k \in {"G"} |-> LoadOrNone(csv)]
    /\ phase' = "running"
    /\ analyses' = <<>>
    /\ response' = NoResponse
    /\ calls' = {}
    /\ UNCHANGED <<csv, pc, run>>

\* lifespan, after the yield
Shutdown ==
    /\ phase = "running"
    /\ pc = "idle"
    /\ graph_state' = EmptyDict
    /\ phase' = "stopped"
    /\ analyses' = <<>>
    /\ response' = NoResponse
    /\ calls' = {}
    /\ UNCHANGED <<csv, pc, run>>

Home ==
    /\ pc = "idle"
    /\ response' = [status |-> 200, route |-> "/"]
    /\ calls' = {}
    /\ UNCHANGED <<csv, phase, graph_state, pc, run, analyses>>

UnavailableAs500(route) ==
    [status |-> 500, route |-> route, detail |-> "Graph data not available"]

\* HTTPException(status_code=503, detail="Graph data not available")
Unavailable(route) ==
    [status |-> 503, route |-> route, detail |-> "Graph data not available"]

\* the analysis a starting run will be compared with: the last one
Latest == IF analyses = <<>> THEN <<>> ELSE <<analyses[Len(analyses)]>>

\* the last two analyses of the held graph
Remember(a) == Latest \o <<a>>

\* generate_dendrogram up to the first pass of the first __one_level
EnterOneLevel(route, G, level, status_list, mod) ==
    LET status == StatusInit(G)
        new_mod == StatusModularity(status)
    IN  [route |-> route, level |-> level, graph |-> G, status |-> status,
         status_list |-> status_list, mod |-> mod,
         modified |-> FALSE, cur_mod |-> new_mod, new_mod |-> new_mod,
         todo |-> NodeSet(G)]

AnalysisResultCountingEntries(partition, G) ==
    [modularity_score |-> Modularity(partition, G),
     total_communities_detected |-> Cardinality(DOMAIN partition),
     total_nodes |-> Len(G.nodes)]

\* detect_communities after best_partition
AnalysisResult(partition, G) ==
    [modularity_score |-> Modularity(partition, G),
     total_communities_detected |-> Cardinality(ComsOf(partition)),
     total_nodes |-> Len(G.nodes)]

\* the handler's answer once best_partition has returned partition
Answer(route, partition, G) ==
    IF route = "/analyze"
    THEN IF Size(G) = 0
         THEN [status |-> 500, route |-> route,
               detail |-> "A graph without link has an undefined modularity"]
         ELSE [status |-> 200, route |-> route, body_status |-> "success",
               algorithm |-> "Louvain", results |-> AnalysisResult(partition, G)]
    ELSE [status |-> 200, route |-> route, media_type |-> "image/png",
          colors |-> [i \in DOMAIN G.nodes |-> partition[G.nodes[i]]],
          num_communities |-> Cardinality(ComsOf(partition)),
          total_nodes |-> Len(G.nodes)]

Analysis(route, partition, G) ==
    [partition |-> partition,
     communities |-> Cardinality(ComsOf(partition)),
     scored |-> (route = "/analyze" /\ Size(G) > 0),
     score |-> IF route = "/analyze" /\ Size(G) > 0
               THEN Modularity(partition, G) ELSE Rat(0, 1)]

\* best_partition on a graph without edges: every node its own community
NoLinkPartition(G) == [n \in NodeSet(G) |-> IndexOf(G.nodes, n) - 1]

\* GET /analyze: analyze_network and detect_communities up to the call of
\* best_partition
AnalyzeNetwork ==
    /\ pc = "idle"
    /\ IF NoGraphHeld
       THEN /\ response' = Unavailable("/analyze")
            /\ calls' = {}
            /\ UNCHANGED <<pc, run, analyses>>
       ELSE IF IsEmptyGraph(HeldGraph)
            THEN /\ response' = [status |-> 200, route |-> "/analyze",
                                 body_status |-> "success", algorithm |-> "Louvain",
                                 results |-> [modularity_score |-> Rat(0, 1),
                                              total_communities_detected |-> 0,
                                              total_nodes |-> 0]]
                 /\ calls' = {"detect_communities"}
                 /\ UNCHANGED <<pc, run, analyses>>
            ELSE IF number_of_edges(HeldGraph) = 0
                 THEN /\ response' = Answer("/analyze", NoLinkPartition(HeldGraph), HeldGraph)
                      /\ calls' = {"detect_communities", "best_partition", "modularity"}
                      /\ analyses' = Remember(Analysis("/analyze",
                                         NoLinkPartition(HeldGraph), HeldGraph))
                      /\ UNCHANGED <<pc, run>>
                 ELSE /\ pc' = "one_level"
                      /\ run' = EnterOneLevel("/analyze", HeldGraph, 1, <<>>, Rat(0, 1))
                      /\ calls' = {"detect_communities", "best_partition"}
                      /\ response' = NoResponse
                      /\ analyses' = Latest
    /\ graph_state' = DictAfterGet(graph_state, "G")
    /\ UNCHANGED <<csv, phase>>

\* GET /visualize: visualize_network and generate_graph_image up to the
\* call of best_partition; the drawing itself is the image's colors and
\* counts
VisualizeNetwork ==
    /\ pc = "idle"
    /\ IF NoGraphHeld
       THEN /\ response' = Unavailable("/visualize")
            /\ calls' = {}
            /\ UNCHANGED <<pc, run, analyses>>
       ELSE IF number_of_edges(HeldGraph) = 0
            THEN /\ response' = Answer("/visualize", NoLinkPartition(HeldGraph), HeldGraph)
                 /\ calls' = {"generate_graph_image", "spring_layout", "best_partition"}
                 /\ analyses' = Remember(Analysis("/visualize",
                                    NoLinkPartition(HeldGraph), HeldGraph))
                 /\ UNCHANGED <<pc, run>>
            ELSE /\ pc' = "one_level"
                 /\ run' = EnterOneLevel("/visualize", HeldGraph, 1, <<>>, Rat(0, 1))
                 /\ calls' = {"generate_graph_image", "spring_layout", "best_partition"}
                 /\ response' = NoResponse
                 /\ analyses' = Latest
    /\ graph_state' = DictAfterGet(graph_state, "G")
    /\ UNCHANGED <<csv, phase>>

\* __one_level: the next node of the shuffled pass
VisitNode ==
    /\ pc = "one_level"
    /\ \E node \in run.todo :
         \E best_com \in BestComs(node, run.graph, run.status) :
            run' = [run EXCEPT
                      !.status = MoveNode(node, best_com, run.graph, run.status),
                      !.modified = @ \/ (best_com # run.status.node2com[node]),
                      !.todo = @ \ {node}]
    /\ UNCHANGED <<csv, phase, graph_state, pc, response, calls, analyses>>

\* __one_level: the end of a pass over the nodes
PassEnd ==
    /\ pc = "one_level"
    /\ run.todo = {}
    /\ LET new_mod == StatusModularity(run.status)
       IN  IF DiffBelowMin(new_mod, run.cur_mod) \/ ~run.modified
           THEN /\ pc' = "level_end"
                /\ run' = [run EXCEPT !.new_mod = new_mod]
           ELSE /\ pc' = "one_level"
                /\ run' = [run EXCEPT !.new_mod = new_mod, !.cur_mod = new_mod,
                                      !.modified = FALSE, !.todo = NodeSet(run.graph)]
    /\ UNCHANGED <<csv, phase, graph_state, response, calls, analyses>>

\* generate_dendrogram after a __one_level, and when its loop breaks the
\* rest of the handler
LevelEnd ==
    /\ pc = "level_end"
    /\ LET new_mod == StatusModularity(run.status)
       IN  IF run.level > 1 /\ DiffBelowMin(new_mod, run.mod)
           THEN LET partition == partition_at_level(run.status_list, Len(run.status_list))
                IN  /\ response' = Answer(run.route, partition, HeldGraph)
                    /\ analyses' = Remember(Analysis(run.route, partition, HeldGraph))
                    /\ calls' = IF run.route = "/analyze"
                                THEN calls \cup {"modularity"} ELSE calls
                    /\ pc' = "idle"
                    /\ run' = NoRun
           ELSE LET partition == Renumber(run.status.node2com, run.graph.nodes)
                    next_graph == induced_graph(partition, run.graph)
                IN  /\ run' = EnterOneLevel(run.route, next_graph, run.level + 1,
                                            Append(run.status_list, partition), new_mod)
                    /\ pc' = "one_level"
                    /\ UNCHANGED <<response, calls, analyses>>
    /\ UNCHANGED <<csv, phase, graph_state>>

Next ==
    \/ Startup
    \/ Shutdown
    \/ Home
    \/ AnalyzeNetwork
    \/ VisualizeNetwork
    \/ VisitNode
    \/ PassEnd
    \/ LevelEnd

Spec == Init /\ [][Next]_vars

-----------------------------------------------------------------------------
(* Properties *)

\* graph_state has no "G" entry, or "G" is None
NothingHeld == \A k \in DOMAIN graph_state : graph_state[k].kind = "None"

Answered(route) == response.status # 0 /\ response.route = route

HeldNodes == graph_state["G"].nodes

LastPartition == analyses[Len(analyses)].partition

\* C1: on a held graph with zero nodes /analyze answers modularity_score
\* 0.0, total_communities_detected 0 and total_nodes 0, and neither
\* best_partition nor modularity has been called for it.
EmptyGraphShortCircuit ==
    (~NothingHeld /\ Len(HeldNodes) = 0 /\ Answered("/analyze")) =>
        /\ response.status = 200
        /\ RatEq(response.results.modularity_score, Rat(0, 1))
        /\ response.results.total_communities_detected = 0
        /\ response.results.total_nodes = 0
        /\ calls \cap {"best_partition", "modularity"} = {}

EmptyGraphAnalyzed ==
    /\ ~NothingHeld /\ Len(HeldNodes) = 0
    /\ Answered("/analyze") /\ response.status = 200

\* C2: while no graph is held, every /analyze and /visualize request is
\* answered 503 "Graph data not available", and no detection or rendering
\* is run or running.
NoGraphAnswers503 ==
    NothingHeld =>
        /\ pc = "idle"
        /\ analyses = <<>>
        /\ \A route \in {"/analyze", "/visualize"} :
              Answered(route) =>
                  /\ response.status = 503
                  /\ response.detail = "Graph data not available"
                  /\ calls = {}

FailedLoadAnswered503 ==
    /\ "G" \in DOMAIN graph_state /\ NothingHeld
    /\ Answered("/visualize") /\ response.status = 503

\* C3: on a held graph with at least one node /analyze answers 200,
\* "success", "Louvain", total_nodes = number of nodes of the graph and
\* total_communities_detected = number of distinct ids of the partition,
\* between 1 and total_nodes.
AnalyzeReportsPartition ==
    (~NothingHeld /\ Len(HeldNodes) >= 1 /\ Answered("/analyze")) =>
        /\ response.status = 200
        /\ response.body_status = "success"
        /\ response.algorithm = "Louvain"
        /\ response.results.total_nodes = Cardinality(NodeSet(HeldGraph))
        /\ analyses # <<>>
        /\ response.results.total_communities_detected
              = Cardinality(ComsOf(LastPartition))
        /\ 1 <= response.results.total_communities_detected
        /\ response.results.total_communities_detected <= response.results.total_nodes

FewerCommunitiesThanNodes ==
    /\ ~NothingHeld /\ Answered("/analyze") /\ response.status = 200
    /\ response.results.total_communities_detected >= 2
    /\ response.results.total_communities_detected < response.results.total_nodes

\* C4: the partition of a Louvain run maps exactly the nodes of the held
\* graph, after every level of aggregation: the composed levels map every
\* node of the graph to a node of the working graph, and the finished
\* partition has the graph's node set as its key set.
PartitionIsTotal ==
    /\ \A i \in DOMAIN analyses :
          DOMAIN analyses[i].partition = NodeSet(HeldGraph)
    /\ pc # "idle" =>
          /\ DOMAIN run.status.node2com = NodeSet(run.graph)
          /\ run.status_list # <<>> =>
                LET p == partition_at_level(run.status_list, Len(run.status_list))
                IN  /\ DOMAIN p = NodeSet(HeldGraph)
                    /\ ComsOf(p) = NodeSet(run.graph)

TwoLevelsComposed ==
    /\ pc = "level_end"
    /\ Len(run.status_list) >= 2
    /\ Cardinality(NodeSet(HeldGraph)) >= 5

\* C5: two analyses of the same held graph give the same partition, the
\* same number of communities and the same modularity score.
RunsAgree ==
    Len(analyses) = 2 =>
        /\ analyses[1].partition = analyses[2].partition
        /\ analyses[1].communities = analyses[2].communities
        /\ (analyses[1].scored /\ analyses[2].scored) =>
              RatEq(analyses[1].score, analyses[2].score)

LacksRequiredColumn == csv.exists /\ ~(RequiredColumns \subseteq csv.columns)

\* C6: when the file lacks departure_id or return_id, load_graph_data
\* fails and returns no graph, startup stores None, and every /analyze
\* and /visualize request is answered 503, never an analysis.
MissingColumnNeverAnalysed ==
    LacksRequiredColumn =>
        /\ ~load_graph_data(csv).ok
        /\ phase = "running" => ("G" \in DOMAIN graph_state /\ graph_state["G"] = NoneValue)
        /\ NothingHeld
        /\ pc = "idle"
        /\ analyses = <<>>
        /\ \A route \in {"/analyze", "/visualize"} :
              Answered(route) => response.status = 503

MissingColumnAnswered503 ==
    /\ LacksRequiredColumn /\ Len(csv.rows) >= 1
    /\ phase = "running" /\ Answered("/analyze") /\ response.status = 503

\* C7: the held graph built from the edge records contains no self-loop:
\* every edge joins two different nodes.
NoSelfLoops ==
    ~NothingHeld => \A e \in Edges(HeldGraph) : Cardinality(e) = 2

\* the number of records between the two nodes of e, in either order
RECURSIVE Multiplicity(_, _)
Multiplicity(rows, e) ==
    IF rows = <<>> THEN 0
    ELSE (IF {Head(rows)["departure_id"], Head(rows)["return_id"]} = e THEN 1 ELSE 0)
         + Multiplicity(Tail(rows), e)

\* C8: an edge between two different nodes that the records contain k
\* times has the weight k in partitioning and scoring.
WeightIsMultiplicity ==
    ~NothingHeld =>
        \A e \in Edges(HeldGraph) :
            Cardinality(e) = 2 =>
                EdgeWeight(HeldGraph, e) = Multiplicity(read_csv(csv), e)

IsBarbell == csv.exists /\ csv.columns = RequiredColumns /\ csv.rows = BarbellRows

\* C9: on two unit-weight triangles joined by one bridge every run, under
\* every visiting order, ends with the two triangles as its 2 communities
\* and /analyze reports 2 communities and modularity 5/14.
BarbellRecovered ==
    (IsBarbell /\ ~NothingHeld) =>
        /\ \A i \in DOMAIN analyses :
              LET p == analyses[i].partition
              IN  /\ analyses[i].communities = 2
                  /\ p[1] = p[2] /\ p[2] = p[3]
                  /\ p[4] = p[5] /\ p[5] = p[6]
                  /\ p[1] # p[4]
        /\ Answered("/analyze") =>
              /\ response.status = 200
              /\ response.results.total_communities_detected = 2
              /\ RatEq(response.results.modularity_score, Rat(5, 14))
              /\ RatLess(Rat(3, 10), response.results.modularity_score)

BarbellAnalyzed ==
    IsBarbell /\ Answered("/analyze") /\ response.status = 200 /\ Len(analyses) = 2

\* C10: requests leave graph_state and the file alone: graph_state changes
\* only when startup writes "G" and when shutdown clears it, and while the
\* service runs it holds exactly what startup loaded.
OnlyLifespanWritesGraphState ==
    [][/\ csv' = csv
       /\ graph_state' # graph_state =>
             \/ phase = "init" /\ phase' = "running" /\ DOMAIN graph_state' = {"G"}
             \/ phase = "running" /\ phase' = "stopped" /\ graph_state' = EmptyDict
       /\ phase' = "running" => graph_state' = [k \in {"G"} |-> LoadOrNone(csv)]]_vars

GraphKeptAfterRequests ==
    /\ ~NothingHeld /\ Len(analyses) = 2
    /\ graph_state["G"] = LoadOrNone(csv)
    /\ Answered("/visualize")

====
